---- MODULE Spec2Model ----
(***************************************************************************)
(* A model of transport.go of go-libp2p-raft: the hclog bridge             *)
(* (hcLogToLogger), the raft stream layer (streamLayer) and the transport  *)
(* factory (NewLibp2pTransport).                                           *)
(***************************************************************************)
EXTENDS Integers, Sequences, FiniteSets, TLC

(***************************************************************************)
(* Bounds.                                                                 *)
(***************************************************************************)
\* longest argument list of a logging call or of With
MaxArgs == 2

(***************************************************************************)
(* Go values of type interface{}.  A value is a string, a non-string       *)
(* scalar, or a []interface{} slice.                                       *)
(***************************************************************************)
Str(s) == [t |-> "string", s |-> s, e |-> <<>>]

NonStr(s) == [t |-> "int", s |-> s, e |-> <<>>]

Slice(elems) == [t |-> "slice", s |-> "", e |-> elems]

\* values passed at a call site
Atoms == {Str("k"), NonStr("7")}

\* values passed to With
CtxAtoms == {Str("c"), NonStr("7")}

RECURSIVE SeqsUpTo(_, _)
SeqsUpTo(S, n) ==
    IF n = 0 THEN {<<>>}
    ELSE LET shorter == SeqsUpTo(S, n - 1)
         IN  shorter \cup {Append(q, x) : q \in {r \in shorter : Len(r) = n - 1}, x \in S}

ArgLists == SeqsUpTo(Atoms, MaxArgs)

CtxLists == SeqsUpTo(CtxAtoms, MaxArgs)

Msgs == {"m"}

Names == {"n"}

\* hclog.Level values; "Off" is a level the switch of Log does not name
Levels == {"NoLevel", "Trace", "Debug", "Info", "Warn", "Error", "Off"}

BridgeIds == {"root", "b1", "b2"}

(***************************************************************************)
(* fmt.Sprintf("%s", v)                                                    *)
(***************************************************************************)
RECURSIVE JoinS(_, _)
SprintS(v) ==
    CASE v.t = "string" -> v.s
      [] v.t = "int"    -> "%!s(int=" \o v.s \o ")"
      [] OTHER          -> "[" \o JoinS(v.e, 1) \o "]"

JoinS(elems, i) ==
    IF i > Len(elems) THEN ""
    ELSE (IF i > 1 THEN " " ELSE "") \o SprintS(elems[i]) \o JoinS(elems, i + 1)

(***************************************************************************)
(* hcLogToLogger.formatArgs: the loop over the argument slice (indices are *)
(* 1-based here: Go's args[i] is a[i+1]).  panic is the index-out-of-range *)
(* run-time panic of args[i+1].                                            *)
(***************************************************************************)
RECURSIVE formatLoop(_, _, _)
formatLoop(a, i, result) ==
    IF i > Len(a) THEN [str |-> result, panic |-> FALSE]
    ELSE IF a[i].t # "string" THEN formatLoop(a, i + 2, result)
    ELSE IF i + 1 > Len(a) THEN [str |-> result, panic |-> TRUE]
    ELSE formatLoop(a, i + 2,
                    result \o " " \o a[i].s \o "=" \o SprintS(a[i + 1]) \o ".")

\* a formatter that spreads the contextual arguments (append(args, extraArgs...))
formatArgsSpread(log, args) == formatLoop(args \o log.extraArgs, 1, "")

\* args = append(args, log.extraArgs): the slice is appended as ONE element
formatArgs(log, args) == formatLoop(Append(args, Slice(log.extraArgs)), 1, "")

format(log, msg, args) ==
    LET r      == formatArgs(log, args)
        argstr == IF r.str # "" THEN ". Args: " \o r.str ELSE ""
        name   == IF log.name # "" THEN log.name \o ": " ELSE ""
    IN  [str |-> name \o msg \o argstr, panic |-> r.panic]

\* a switch whose default case is silent about unknown levels
LogTargetQuiet(level) ==
    CASE level \in {"Trace", "Debug"}  -> "Debug"
      [] level \in {"NoLevel", "Info"} -> "Info"
      [] level = "Warn"                -> "Warn"
      [] level = "Error"               -> "Error"
      [] OTHER                         -> "Debug"

\* the switch of Log: the level method it calls
LogTarget(level) ==
    CASE level \in {"Trace", "Debug"}  -> "Debug"
      [] level \in {"NoLevel", "Info"} -> "Info"
      [] level = "Warn"                -> "Warn"
      [] level = "Error"               -> "Error"
      [] OTHER                         -> "Warn"

\* Log calls log.Debug(msg, args), not log.Debug(msg, args...): the level
\* method receives one variadic argument, the slice itself
LogArgs(args) == <<Slice(args)>>

\* the raftLogger method each level method calls
HostLevel(method) ==
    CASE method = "Trace" -> "debug"
      [] method = "Debug" -> "debug"
      [] method = "Info"  -> "info"
      [] method = "Warn"  -> "warn"
      [] method = "Error" -> "error"

LevelMethods == {"Trace", "Debug", "Info", "Warn", "Error"}

(***************************************************************************)
(* With / Named / ResetNamed: recv is the receiver after the call, new the *)
(* bridge returned.                                                        *)
(***************************************************************************)
\* a With that accumulates into the receiver in place and shares it
WithInPlace(log, args) ==
    [recv |-> [log EXCEPT !.extraArgs = @ \o args],
     new  |-> [name |-> log.name, extraArgs |-> log.extraArgs \o args]]

WithResult(log, args) ==
    [recv |-> log, new |-> [name |-> "", extraArgs |-> args]]

NamedResult(log, name) ==
    [recv |-> log, new |-> [name |-> log.name \o ": " \o name, extraArgs |-> <<>>]]

ResetNamedResult(log, name) ==
    [recv |-> log, new |-> [name |-> name, extraArgs |-> <<>>]]

(***************************************************************************)
(* State of the logging bridge.                                            *)
(*   bridges : the hcLogToLogger values allocated so far (name, extraArgs) *)
(*             with history fields: live, parent, via, given               *)
(*   call    : the last call made on a bridge                              *)
(*   emitted : the records the last call handed to raftLogger              *)
(*   panicked: whether the last call ended in a run-time panic             *)
(***************************************************************************)
VARIABLES bridges, call, emitted, panicked

logVars == <<bridges, call, emitted, panicked>>

(***************************************************************************)
(* State of the stream layer and of the substrate under it.                *)
(*   factory    : per host, the last NewLibp2pTransport call and its result*)
(*   lst        : per host, the gostream listener (l of streamLayer)       *)
(*   closeCalled: per host, whether streamLayer.Close has been called      *)
(*   acc        : the Accept calls                                         *)
(*   dial       : the Dial calls                                           *)
(*   strm       : the streams the Dial calls opened, at the listening side *)
(***************************************************************************)
VARIABLES factory, lst, closeCalled, acc, dial, strm

netVars == <<factory, lst, closeCalled, acc, dial, strm>>

vars == <<bridges, call, emitted, panicked, factory, lst, closeCalled, acc, dial, strm>>

NoBridge ==
    [live |-> FALSE, name |-> "", extraArgs |-> <<>>,
     parent |-> "root", via |-> "none", given |-> <<>>]

NoCall == [op |-> "none", b |-> "root", level |-> "NoLevel", msg |-> "", args |-> <<>>]

\* &hcLogToLogger{} of NewLibp2pTransport
RootBridge ==
    [live |-> TRUE, name |-> "", extraArgs |-> <<>>,
     parent |-> "root", via |-> "root", given |-> <<>>]

Fields(b) == [name |-> bridges[b].name, extraArgs |-> bridges[b].extraArgs]

LogInit ==
    /\ bridges = [b \in BridgeIds |-> IF b = "root" THEN RootBridge ELSE NoBridge]
    /\ call = NoCall
    /\ emitted = <<>>
    /\ panicked = FALSE

\* the next bridge to allocate
FreeId == IF ~bridges["b1"].live THEN "b1" ELSE "b2"

CanDerive == ~bridges["b2"].live

Derive(b, r, via, given) ==
    /\ bridges' = [bridges EXCEPT
                     ![b].name = r.recv.name,
                     ![b].extraArgs = r.recv.extraArgs,
                     ![FreeId] = [live |-> TRUE, name |-> r.new.name,
                                  extraArgs |-> r.new.extraArgs,
                                  parent |-> b, via |-> via, given |-> given]]
    /\ call' = [op |-> via, b |-> b, level |-> "NoLevel", msg |-> "", args |-> given]
    /\ emitted' = <<>>
    /\ panicked' = FALSE
    /\ UNCHANGED netVars

\* calls are made one at a time: a call is made when the previous one returned
Idle == call.op = "none"

With(b, args) ==
    /\ Idle /\ bridges[b].live /\ CanDerive
    /\ Derive(b, WithResult(Fields(b), args), "With", args)

Named(b, name) ==
    /\ Idle /\ bridges[b].live /\ CanDerive
    /\ Derive(b, NamedResult(Fields(b), name), "Named", <<>>)

ResetNamed(b, name) ==
    /\ Idle /\ bridges[b].live /\ CanDerive
    /\ Derive(b, ResetNamedResult(Fields(b), name), "ResetNamed", <<>>)

\* a level method: raftLogger.X(log.format(msg, args))
Emit(b, method, msg, args) ==
    LET r == format(Fields(b), msg, args)
    IN  /\ emitted' = IF r.panic THEN <<>>
                      ELSE <<[level |-> HostLevel(method), text |-> r.str]>>
        /\ panicked' = r.panic
    /\ UNCHANGED netVars

LevelCall(b, method, msg, args) ==
    /\ Idle /\ bridges[b].live
    /\ Emit(b, method, msg, args)
    /\ call' = [op |-> method, b |-> b, level |-> "NoLevel", msg |-> msg, args |-> args]
    /\ UNCHANGED bridges

Log(b, level, msg, args) ==
    /\ Idle /\ bridges[b].live
    /\ Emit(b, LogTarget(level), msg, LogArgs(args))
    /\ call' = [op |-> "Log", b |-> b, level |-> level, msg |-> msg, args |-> args]
    /\ UNCHANGED bridges

\* the call returns to its caller
Return ==
    /\ ~Idle
    /\ call' = NoCall
    /\ emitted' = <<>>
    /\ panicked' = FALSE
    /\ UNCHANGED <<bridges, netVars>>

LogNext ==
    \/ Return
    \/ \E b \in BridgeIds, args \in CtxLists : With(b, args)
    \/ \E b \in BridgeIds, name \in Names : Named(b, name)
    \/ \E b \in BridgeIds, name \in Names : ResetNamed(b, name)
    \/ \E b \in BridgeIds, m \in LevelMethods, msg \in Msgs, args \in ArgLists :
          LevelCall(b, m, msg, args)
    \/ \E b \in BridgeIds, l \in Levels, msg \in Msgs, args \in ArgLists :
          Log(b, l, msg, args)

(***************************************************************************)
(* The stream layer.                                                       *)
(***************************************************************************)
\* longest Dial timeout, in clock ticks
MaxTimeout == 1

Timeouts == 0 .. MaxTimeout

\* the hosts a transport is built on
Hosts == {"A", "B"}

\* the stream layers that dial: the one of host A, and "Z", a zero-value
\* streamLayer{} (no host, no listener)
DialLayers == {"A", "Z"}

\* the hosts whose stream layer is accepted on and closed
ListenHosts == {"B"}

\* raft.ServerAddress values: the encodings of B and of a peer that is not
\* there, and a string that is no peer identity
Addrs == {"idB", "idX", "garbage"}

AccIds == {"a1", "a2"}

DialIds == {"d1", "d2"}

\* peer.Decode
Decode(addr) ==
    CASE addr = "idB" -> [ok |-> TRUE, pid |-> "B"]
      [] addr = "idX" -> [ok |-> TRUE, pid |-> "X"]
      [] OTHER        -> [ok |-> FALSE, pid |-> ""]

\* sl.host of a layer
HostOf(layer) == IF layer = "Z" THEN "nil" ELSE layer

NoTrans ==
    [made |-> FALSE, provider |-> "", stream |-> "",
     logger |-> [name |-> "", extraArgs |-> <<>>], maxPool |-> 0, timeout |-> 0]

\* a factory that leaves raft's connection pool on
NewLibp2pTransportPooled(h, timeout, listenErr) ==
    IF listenErr # "nil"
    THEN [trans |-> NoTrans, err |-> listenErr]
    ELSE [trans |-> [made |-> TRUE, provider |-> h, stream |-> h,
                     logger |-> [name |-> "", extraArgs |-> <<>>],
                     maxPool |-> 3, timeout |-> timeout],
          err |-> "nil"]

\* NewLibp2pTransport, given what gostream.Listen returned
NewLibp2pTransportResult(h, timeout, listenErr) ==
    IF listenErr # "nil"
    THEN [trans |-> NoTrans, err |-> listenErr]
    ELSE [trans |-> [made |-> TRUE, provider |-> h, stream |-> h,
                     logger |-> [name |-> "", extraArgs |-> <<>>],
                     maxPool |-> 0, timeout |-> timeout],
          err |-> "nil"]

\* a Dial that ignores the error of peer.Decode
DialNoDecodeCheck(host, addr) ==
    IF host = "nil" THEN [go |-> FALSE, err |-> "NotInitialized", pid |-> ""]
    ELSE [go |-> TRUE, err |-> "nil", pid |-> Decode(addr).pid]

\* a Dial that opens the stream to a fixed peer, not to the one decoded
DialWrongPeer(host, addr) ==
    IF host = "nil" THEN [go |-> FALSE, err |-> "NotInitialized", pid |-> ""]
    ELSE IF ~Decode(addr).ok THEN [go |-> FALSE, err |-> "InvalidAddress", pid |-> ""]
    ELSE [go |-> TRUE, err |-> "nil", pid |-> "B"]

\* Dial, up to the call of gostream.Dial
DialPrefix(host, addr) ==
    IF host = "nil" THEN [go |-> FALSE, err |-> "NotInitialized", pid |-> ""]
    ELSE IF ~Decode(addr).ok THEN [go |-> FALSE, err |-> "InvalidAddress", pid |-> ""]
    ELSE [go |-> TRUE, err |-> "nil", pid |-> Decode(addr).pid]

\* a Dial that passes context.Background()
DialCtxBackground(timeout) == [hasDeadline |-> FALSE, left |-> timeout]

\* context.WithTimeout(context.Background(), timeout)
DialCtx(timeout) == [hasDeadline |-> TRUE, left |-> timeout]

NoFactory == [called |-> FALSE, timeout |-> 0, listenErr |-> "nil",
              trans |-> NoTrans, err |-> "nil"]

NoAcc == [state |-> "idle", layer |-> "B", conn |-> "none", err |-> "nil"]

NoDial ==
    [state |-> "idle", layer |-> "A", addr |-> "", timeout |-> 0, pid |-> "",
     ctx |-> [hasDeadline |-> FALSE, left |-> 0], elapsed |-> 0,
     attempted |-> FALSE, peerAccepting |-> FALSE, conn |-> "none", err |-> "nil"]

NoStrm == [state |-> "none", to |-> "", by |-> "none"]

NetInit ==
    /\ factory = [h \in Hosts |-> NoFactory]
    /\ lst = [h \in Hosts |-> [exists |-> FALSE, open |-> FALSE, handler |-> FALSE]]
    /\ closeCalled = [h \in Hosts |-> FALSE]
    /\ acc = [a \in AccIds |-> NoAcc]
    /\ dial = [d \in DialIds |-> NoDial]
    /\ strm = [d \in DialIds |-> NoStrm]

\* the Accept calls blocked in the listener of host h
Blocked(h) == {a \in AccIds : acc[a].state = "blocked" /\ acc[a].layer = h}

\* the handler goroutines blocked sending a stream to the listener of host h
SendQ(h) == {s \in DialIds : strm[s].state = "sendq" /\ strm[s].to = h}

\* NewLibp2pTransport(h, timeout); listenErr is what gostream.Listen returns
NewLibp2pTransport(h, timeout, listenErr) ==
    LET r == NewLibp2pTransportResult(h, timeout, listenErr)
    IN  /\ ~lst[h].exists
        /\ factory' = [factory EXCEPT ![h] =
                          [called |-> TRUE, timeout |-> timeout,
                           listenErr |-> listenErr, trans |-> r.trans, err |-> r.err]]
        /\ lst' = [lst EXCEPT ![h] =
                      IF listenErr = "nil"
                      THEN [exists |-> TRUE, open |-> TRUE, handler |-> TRUE]
                      ELSE @]
        /\ UNCHANGED <<closeCalled, acc, dial, strm, logVars>>

\* streamLayer.Dial: the call, up to the point gostream.Dial is entered
Dial(d, layer, addr, timeout) ==
    LET r == DialPrefix(HostOf(layer), addr)
    IN  /\ dial[d].state = "idle"
        /\ IF layer = "Z" THEN TRUE ELSE lst[layer].exists
        /\ dial' = [dial EXCEPT ![d] =
              [state |-> IF r.go THEN "pending" ELSE "done",
               layer |-> layer, addr |-> addr, timeout |-> timeout, pid |-> r.pid,
               ctx |-> IF r.go THEN DialCtx(timeout) ELSE NoDial.ctx,
               elapsed |-> 0,
               attempted |-> r.go,
               peerAccepting |-> /\ Decode(addr).ok
                                 /\ Decode(addr).pid \in Hosts
                                 /\ lst[Decode(addr).pid].open
                                 /\ Blocked(Decode(addr).pid) # {},
               conn |-> "none", err |-> r.err]]
        /\ UNCHANGED <<factory, lst, closeCalled, acc, strm, logVars>>

\* gostream.Dial: the substrate opens the stream before the context expires;
\* the handler registered by the listener of the peer is started with it
DialEstablish(d) ==
    /\ dial[d].state = "pending"
    /\ dial[d].ctx.hasDeadline => dial[d].ctx.left > 0
    /\ dial[d].pid \in Hosts /\ lst[dial[d].pid].handler
    /\ dial' = [dial EXCEPT ![d].state = "done", ![d].conn = d]
    /\ strm' = [strm EXCEPT ![d] = [state |-> "handler", to |-> dial[d].pid,
                                    by |-> "none"]]
    /\ UNCHANGED <<factory, lst, closeCalled, acc, logVars>>

\* gostream.Dial: the substrate fails to open the stream before the context
\* expires
DialFail(d) ==
    /\ dial[d].state = "pending"
    /\ dial[d].ctx.hasDeadline => dial[d].ctx.left > 0
    /\ dial' = [dial EXCEPT ![d].state = "done", ![d].err = "Unreachable"]
    /\ UNCHANGED <<factory, lst, closeCalled, acc, strm, logVars>>

\* gostream.Dial: the context expires
DialTimeout(d) ==
    /\ dial[d].state = "pending"
    /\ dial[d].ctx.hasDeadline /\ dial[d].ctx.left = 0
    /\ dial' = [dial EXCEPT ![d].state = "done", ![d].err = "Timeout"]
    /\ UNCHANGED <<factory, lst, closeCalled, acc, strm, logVars>>

\* one tick of the clock; an expired context ends its Dial before the next
Tick ==
    /\ \E d \in DialIds : dial[d].state = "pending"
    /\ \A d \in DialIds :
          dial[d].state = "pending" =>
              /\ dial[d].ctx.hasDeadline => dial[d].ctx.left > 0
              /\ dial[d].elapsed <= dial[d].timeout
    /\ dial' = [d \in DialIds |->
                  IF dial[d].state = "pending"
                  THEN [dial[d] EXCEPT
                          !.elapsed = @ + 1,
                          !.ctx.left = IF dial[d].ctx.hasDeadline THEN @ - 1 ELSE @]
                  ELSE dial[d]]
    /\ UNCHANGED <<factory, lst, closeCalled, acc, strm, logVars>>

\* listener.Accept: select { case s := <-streamCh; case <-ctx.Done() }
ListenerAccept(a, h) ==
    \/ \E s \in SendQ(h) :
          /\ acc' = [acc EXCEPT ![a] = [state |-> "done", layer |-> h,
                                        conn |-> s, err |-> "nil"]]
          /\ strm' = [strm EXCEPT ![s].state = "delivered", ![s].by = a]
    \/ /\ ~lst[h].open
       /\ acc' = [acc EXCEPT ![a] = [state |-> "done", layer |-> h,
                                     conn |-> "none", err |-> "ListenerClosed"]]
       /\ UNCHANGED strm
    \/ /\ SendQ(h) = {} /\ lst[h].open
       /\ acc' = [acc EXCEPT ![a] = [state |-> "blocked", layer |-> h,
                                     conn |-> "none", err |-> "nil"]]
       /\ UNCHANGED strm

\* streamLayer.Accept
Accept(a, h) ==
    /\ acc[a].state \in {"idle", "done"}
    /\ lst[h].exists
    /\ ListenerAccept(a, h)
    /\ UNCHANGED <<factory, lst, closeCalled, dial, logVars>>

\* an Accept call woken by the cancelled context returns
AcceptReturn(a) ==
    /\ acc[a].state = "woken"
    /\ acc' = [acc EXCEPT ![a].state = "done", ![a].err = "ListenerClosed"]
    /\ UNCHANGED <<factory, lst, closeCalled, dial, strm, logVars>>

\* the stream handler: select { case streamCh <- s; case <-ctx.Done(): s.Reset() }
HandlerRun(s) ==
    /\ strm[s].state = "handler"
    /\ \/ \E a \in Blocked(strm[s].to) :
             /\ acc' = [acc EXCEPT ![a].state = "done", ![a].conn = s]
             /\ strm' = [strm EXCEPT ![s].state = "delivered", ![s].by = a]
       \/ /\ ~lst[strm[s].to].open
          /\ strm' = [strm EXCEPT ![s].state = "reset"]
          /\ UNCHANGED acc
       \/ /\ Blocked(strm[s].to) = {} /\ lst[strm[s].to].open
          /\ strm' = [strm EXCEPT ![s].state = "sendq"]
          /\ UNCHANGED acc
    /\ UNCHANGED <<factory, lst, closeCalled, dial, logVars>>

\* listener.Close: cancel() wakes every goroutine blocked in a select on
\* ctx.Done(); RemoveStreamHandler unregisters the handler
ListenerClose(h) ==
    /\ lst' = [lst EXCEPT ![h].open = FALSE, ![h].handler = FALSE]
    /\ acc' = [a \in AccIds |->
                 IF a \in Blocked(h) THEN [acc[a] EXCEPT !.state = "woken"] ELSE acc[a]]
    /\ strm' = [s \in DialIds |->
                  IF s \in SendQ(h) THEN [strm[s] EXCEPT !.state = "reset"] ELSE strm[s]]

\* a Close that returns without closing the listener
CloseForgets(h) ==
    /\ lst[h].exists
    /\ closeCalled' = [closeCalled EXCEPT ![h] = TRUE]
    /\ UNCHANGED <<lst, acc, strm, factory, dial, logVars>>

\* streamLayer.Close
Close(h) ==
    /\ lst[h].exists
    /\ closeCalled' = [closeCalled EXCEPT ![h] = TRUE]
    /\ ListenerClose(h)
    /\ UNCHANGED <<factory, dial, logVars>>

NetNext ==
    \/ \E h \in Hosts, t \in Timeouts, e \in {"nil", "BindFailed"} :
          NewLibp2pTransport(h, t, e)
    \/ \E d \in DialIds, l \in DialLayers, addr \in Addrs, t \in Timeouts :
          Dial(d, l, addr, t)
    \/ \E d \in DialIds : DialEstablish(d)
    \/ \E d \in DialIds : DialFail(d)
    \/ \E d \in DialIds : DialTimeout(d)
    \/ Tick
    \/ \E a \in AccIds, h \in ListenHosts : Accept(a, h)
    \/ \E a \in AccIds : AcceptReturn(a)
    \/ \E s \in DialIds : HandlerRun(s)
    \/ \E h \in ListenHosts : Close(h)

Init == LogInit /\ NetInit

Next == LogNext \/ NetNext

\* the whole program
Spec == Init /\ [][Next]_vars

\* the logging bridge alone
LogSpec == Init /\ [][LogNext]_vars

\* the stream layer alone
NetSpec == Init /\ [][NetNext]_vars

\* the stream layer, with goroutines that are scheduled and a clock that runs
NetFairSpec ==
    /\ Init /\ [][NetNext]_vars
    /\ WF_vars(Tick)
    /\ \A d \in DialIds : WF_vars(DialTimeout(d))
    /\ \A a \in AccIds : WF_vars(AcceptReturn(a))
    /\ \A s \in DialIds : WF_vars(HandlerRun(s))

(***************************************************************************)
(* What the specification expects of the rendered text.                    *)
(***************************************************************************)
IsEven(n) == n % 2 = 0

\* one " key=value." fragment per pair whose key is text, in order
RECURSIVE ExpectedFrags(_, _)
ExpectedFrags(kv, i) ==
    IF i + 1 > Len(kv) THEN ""
    ELSE (IF kv[i].t = "string"
          THEN " " \o kv[i].s \o "=" \o SprintS(kv[i + 1]) \o "."
          ELSE "") \o ExpectedFrags(kv, i + 2)

ExpectedText(name, msg, kv) ==
    LET frags == ExpectedFrags(kv, 1)
    IN  (IF name # "" THEN name \o ": " ELSE "") \o msg
        \o (IF frags # "" THEN ". Args: " \o frags ELSE "")

\* the bridge was derived from the root by With calls only
RECURSIVE WithChain(_)
WithChain(b) ==
    \/ bridges[b].via = "root"
    \/ bridges[b].via = "With" /\ IsEven(Len(bridges[b].given))
       /\ WithChain(bridges[b].parent)

\* the contextual pairs the With calls of the bridge's ancestry attached
RECURSIVE Ctx(_)
Ctx(b) ==
    IF bridges[b].via = "With" THEN Ctx(bridges[b].parent) \o bridges[b].given
    ELSE <<>>

\* C5: Log emits at the host level: trace, debug -> debug; unset, info ->
\* info; warn -> warn; error -> error; any other level -> warn.
C5_LevelMapping ==
    call.op = "Log" =>
        \A i \in DOMAIN emitted :
            emitted[i].level =
                CASE call.level \in {"Trace", "Debug"}  -> "debug"
                  [] call.level \in {"NoLevel", "Info"} -> "info"
                  [] call.level = "Warn"                -> "warn"
                  [] call.level = "Error"               -> "error"
                  [] OTHER                              -> "warn"

C5_Witness ==
    /\ call.op = "Log" /\ call.level = "Off"
    /\ emitted # <<>> /\ emitted[1].level = "warn"

\* C6: Log never panics, whatever the level and the argument list (empty,
\* odd or even), and hands exactly one record to the host logger.
C6_LogNeverFails ==
    call.op = "Log" => ~panicked /\ Len(emitted) = 1

C6_Witness ==
    /\ call.op = "Log" /\ Len(call.args) = 1 /\ call.args[1].t = "string"
    /\ Len(bridges[call.b].extraArgs) = 2
    /\ ~panicked /\ Len(emitted) = 1

\* C7: Log with an even-length argument list emits the text with one
\* " key=value." fragment per text-keyed pair, the same text the level
\* method emits for the same message and arguments.
C7_LogRendersPairs ==
    (call.op = "Log" /\ IsEven(Len(call.args))) =>
        /\ Len(emitted) = 1
        /\ emitted[1].text = ExpectedText(bridges[call.b].name, call.msg, call.args)
        /\ emitted[1].text = format(Fields(call.b), call.msg, call.args).str

\* C8: a bridge derived by With calls appends the contextual pairs of all
\* its With calls, as key=value fragments, after the call-site pairs.
C8_WithAppendsContext ==
    (/\ call.op \in LevelMethods
     /\ IsEven(Len(call.args))
     /\ WithChain(call.b)) =>
        /\ Len(emitted) = 1
        /\ emitted[1].text =
              ExpectedText(bridges[call.b].name, call.msg, call.args \o Ctx(call.b))

\* C9: With, Named and ResetNamed leave the receiver (and every other
\* bridge) unchanged; a bridge derived by With carries exactly the pairs it
\* was given, and what it emits is made of its own pairs alone.
C9_Isolation ==
    [][/\ \A b \in BridgeIds :
            bridges[b].live =>
                /\ bridges'[b].name = bridges[b].name
                /\ bridges'[b].extraArgs = bridges[b].extraArgs
       /\ \A b \in BridgeIds :
            (bridges'[b].live /\ bridges'[b].via = "With") =>
                bridges'[b].extraArgs = bridges'[b].given
       /\ (call'.op \in LevelMethods /\ bridges'[call'.b].via = "With") =>
            emitted' = <<[level |-> HostLevel(call'.op),
                          text  |-> format([name |-> "",
                                            extraArgs |-> bridges'[call'.b].given],
                                           call'.msg, call'.args).str]>>
      ]_vars

C9_Witness ==
    /\ bridges["b1"].via = "With" /\ bridges["b1"].parent = "root"
    /\ bridges["b2"].via = "With" /\ bridges["b2"].parent = "root"
    /\ Len(bridges["b1"].given) = 2 /\ Len(bridges["b2"].given) = 2
    /\ bridges["b1"].given # bridges["b2"].given
    /\ call.op = "Info" /\ call.b = "b1" /\ call.args = <<Str("k")>>
    /\ Len(emitted) = 1

\* C1: once Close has been called on the stream layer of a host, every Accept
\* call on it that returns, returns ListenerClosed and no connection; no
\* stream is handed to an Accept call any more; and every Accept call that is
\* blocked does return.
C1_CloseEndsAccept ==
    /\ [][\A h \in ListenHosts :
            closeCalled[h] =>
                /\ \A a \in AccIds :
                      (acc'[a] # acc[a] /\ acc'[a].layer = h /\ acc'[a].state = "done")
                          => (acc'[a].err = "ListenerClosed" /\ acc'[a].conn = "none")
                /\ \A s \in DialIds :
                      (strm'[s].to = h /\ strm'[s].state = "delivered")
                          => strm[s].state = "delivered"]_vars
    /\ \A a \in AccIds :
          (closeCalled[acc[a].layer] /\ acc[a].state \in {"blocked", "woken"})
              ~> (acc[a].state = "done")

C1_Witness ==
    /\ closeCalled["B"]
    /\ \A a \in AccIds : acc[a].state = "done" /\ acc[a].err = "ListenerClosed"
    /\ \E s \in DialIds : strm[s].state = "reset"

\* C2 as stated: a Dial with an address that does not decode returns
\* InvalidAddress without a network operation, whatever the stream layer.
C2_AlwaysInvalidAddress ==
    \A d \in DialIds :
        (dial[d].state # "idle" /\ ~Decode(dial[d].addr).ok) =>
            /\ dial[d].state = "done" /\ ~dial[d].attempted /\ dial[d].conn = "none"
            /\ dial[d].err = "InvalidAddress"

\* C2, amended: a Dial with an address that does not decode never attempts a
\* network operation and returns an error: NotInitialized when the stream
\* layer has no host, InvalidAddress otherwise.
C2_InvalidAddress ==
    \A d \in DialIds :
        (dial[d].state # "idle" /\ ~Decode(dial[d].addr).ok) =>
            /\ dial[d].state = "done" /\ ~dial[d].attempted /\ dial[d].conn = "none"
            /\ dial[d].err = IF HostOf(dial[d].layer) = "nil"
                             THEN "NotInitialized" ELSE "InvalidAddress"

C2_Witness ==
    /\ \E d \in DialIds :
          /\ dial[d].layer = "Z" /\ dial[d].addr = "garbage"
          /\ dial[d].state = "done" /\ dial[d].err = "NotInitialized"
    /\ \E d \in DialIds :
          /\ dial[d].layer = "A" /\ dial[d].addr = "garbage"
          /\ dial[d].state = "done" /\ dial[d].err = "InvalidAddress"

\* C3: a Dial with a valid address on a stream layer that has a host returns,
\* and no later than its timeout; at the deadline it returns Timeout; what it
\* returns is a connection or an error, not both and not neither.
C3_DialBounded ==
    /\ [](\A d \in DialIds :
            (/\ dial[d].state # "idle"
             /\ HostOf(dial[d].layer) # "nil"
             /\ Decode(dial[d].addr).ok) =>
                /\ dial[d].elapsed <= dial[d].timeout
                /\ dial[d].state = "done" =>
                      /\ (dial[d].conn # "none") # (dial[d].err # "nil")
                      /\ dial[d].elapsed = dial[d].timeout =>
                            (dial[d].conn = "none" /\ dial[d].err = "Timeout"))
    /\ \A d \in DialIds : (dial[d].state = "pending") ~> (dial[d].state = "done")

C3_Witness ==
    \E d \in DialIds :
        /\ dial[d].state = "done" /\ dial[d].addr = "idX" /\ dial[d].layer = "A"
        /\ dial[d].timeout = MaxTimeout /\ dial[d].elapsed = MaxTimeout
        /\ dial[d].err = "Timeout"

\* C4 as stated, in what it says of a Dial that has returned: a Dial of A to
\* B made while B is blocked in Accept with its listener open returns a
\* connection.
C4_DialAlwaysConnects ==
    \A d \in DialIds :
        (dial[d].state = "done" /\ dial[d].peerAccepting) => dial[d].conn # "none"

\* C4, amended: the Dial returns a connection strictly before its timeout
\* expires, or an error; the stream of a connection is handed to at most one
\* Accept call, on the host dialled, which returns the other end of it; and
\* the stream is not left waiting while an Accept call stays blocked.
C4_SameStream ==
    /\ [](\A d \in DialIds :
            dial[d].conn # "none" =>
                /\ dial[d].err = "nil" /\ dial[d].elapsed < dial[d].timeout
                /\ strm[d].state # "none" /\ strm[d].to = Decode(dial[d].addr).pid)
    /\ [](\A a \in AccIds :
            acc[a].conn # "none" =>
                /\ acc[a].state = "done" /\ acc[a].err = "nil"
                /\ dial[acc[a].conn].conn = acc[a].conn
                /\ strm[acc[a].conn].state = "delivered"
                /\ strm[acc[a].conn].by = a
                /\ strm[acc[a].conn].to = acc[a].layer)
    /\ [][\A s \in DialIds : strm[s].state = "delivered" => strm'[s] = strm[s]]_vars
    /\ \A s \in DialIds :
          (strm[s].state = "handler" /\ Blocked(strm[s].to) # {})
              ~> (strm[s].state \in {"delivered", "reset"} \/ Blocked(strm[s].to) = {})

C4_Witness ==
    \E d \in DialIds, a \in AccIds :
        /\ dial[d].layer = "A" /\ dial[d].peerAccepting /\ dial[d].conn = d
        /\ acc[a].layer = "B" /\ acc[a].conn = d
        /\ \E a2 \in AccIds : acc[a2].state = "blocked"

\* C10: NewLibp2pTransport fails exactly when gostream.Listen fails, with the
\* error of Listen and no transport; otherwise it returns the transport made
\* of the address provider and the stream layer of the host, an empty log
\* bridge, MaxPool 0 and the timeout it was given.
C10_Factory ==
    \A h \in Hosts :
        factory[h].called =>
            /\ (factory[h].err # "nil") <=> (factory[h].listenErr # "nil")
            /\ factory[h].listenErr # "nil" =>
                  (factory[h].err = factory[h].listenErr /\ ~factory[h].trans.made)
            /\ factory[h].listenErr = "nil" =>
                  /\ lst[h].exists
                  /\ factory[h].trans =
                        [made |-> TRUE, provider |-> h, stream |-> h,
                         logger |-> [name |-> "", extraArgs |-> <<>>],
                         maxPool |-> 0, timeout |-> factory[h].timeout]

C10_Witness ==
    /\ factory["A"].called /\ factory["A"].err = "BindFailed"
    /\ factory["B"].called /\ factory["B"].trans.made
    /\ factory["B"].trans.timeout = MaxTimeout

====
